---- MODULE Spec2Model ----
(***************************************************************************)
(* Model of the influencer pipeline: the paginated search client           *)
(* (find_influencers.search_tweets), the per-author aggregation            *)
(* (analyze_influencers.build_influencers_with_tweets), the scorer         *)
(* (engagement_rate, total_engagement, recommend) and the driver           *)
(* (analyze_influencers.main) up to the rows of recommendations.csv, and   *)
(* the document generator (export_to_html.main) that reads them.           *)
(*                                                                         *)
(* Conventions.                                                            *)
(*  - A Python dict is a function whose DOMAIN is the set of keys present; *)
(*    d.get(k) of an absent key is modelled by testing k \in DOMAIN d.     *)
(*  - A post text is a sequence of characters; " " is whitespace.          *)
(*  - A float quotient total/denom is kept as the exact fraction           *)
(*    [num, den]; comparisons with the decimal thresholds are done by      *)
(*    cross-multiplication.  For the magnitudes of the model the correctly *)
(*    rounded double quotient compares with the double literal exactly as  *)
(*    the fractions do.                                                    *)
(***************************************************************************)
EXTENDS Integers, Sequences, FiniteSets, TLC

VARIABLES
    pc,            \* position of the run: which statement of main is next
    qi,            \* main: index of the query being searched (1-based)
    page,          \* search_tweets: page counter
    next_token,    \* search_tweets: continuation token ("" models None)
    s_tweets,      \* search_tweets: local all_tweets
    s_users,       \* search_tweets: local users_by_id
    sent_token,    \* next_token parameter of the last request sent ("" = not sent)
    last,          \* the last response received: status and meta.next_token
    n429,          \* number of 429 responses of the current call (saturating)
    ok_pages,      \* number of successful responses of the current call
    all_tweets,    \* main: all_tweets
    all_users,     \* main: all_users
    by_author,     \* build_influencers_with_tweets: by_author (dict)
    order,         \* insertion order of the keys of by_author
    influencers,   \* main: influencers (list of rows)
    csv,           \* rows written to recommendations.csv
    csv_written,   \* whether recommendations.csv was written by this run
    arg,           \* argument of a direct call of a scorer function
    result,        \* its result
    rows,          \* export_to_html.main: rows
    html           \* export_to_html.main: the document written (its cards and total)

vars == <<pc, qi, page, next_token, s_tweets, s_users, sent_token, last, n429,
          ok_pages, all_tweets, all_users, by_author, order, influencers, csv,
          csv_written, arg, result, rows, html>>

searchVars == <<page, next_token, s_tweets, s_users, sent_token, last, n429, ok_pages>>
buildVars == <<by_author, order>>
callVars == <<arg, result>>
exportVars == <<rows, html>>

----------------------------------------------------------------------------
(* Bounds of the model *)

\* number of posts fed to the aggregation loop
MaxTweets == 6
\* the 429 counter saturates here
Max429 == 2
\* the max_pages argument of the modelled search_tweets calls (main passes 5;
\* the loop is the same for every value)
MaxPagesArg == 2
\* rows of a drawn influencers list
MaxRows == 3

----------------------------------------------------------------------------
(* Python helpers *)

EmptyDict == [k \in {} |-> 0]

Min(a, b) == IF a < b THEN a ELSE b
Max(a, b) == IF a > b THEN a ELSE b

\* d.get(k) or 0
GetOrZero(d, k) == IF k \in DOMAIN d THEN d[k] ELSE 0

\* d.get(k) or ""   and   d.get(k, "")  for string-valued keys
GetOrEmpty(d, k) == IF k \in DOMAIN d THEN d[k] ELSE ""

\* d.get(k) or {}
GetOrDict(d, k) == IF k \in DOMAIN d THEN d[k] ELSE EmptyDict

IsSpace(c) == c = " "

\* str.strip(): drop the leading and the trailing whitespace
RECURSIVE LStrip(_)
LStrip(s) == IF s # <<>> /\ IsSpace(Head(s)) THEN LStrip(Tail(s)) ELSE s

RECURSIVE RStrip(_)
RStrip(s) == IF s # <<>> /\ IsSpace(s[Len(s)]) THEN RStrip(SubSeq(s, 1, Len(s) - 1)) ELSE s

Strip(s) == RStrip(LStrip(s))

\* the slice text[:500]
SAMPLE_TEXT_LIMIT == 500
Truncate(s) == SubSeq(s, 1, Min(Len(s), SAMPLE_TEXT_LIMIT))

\* the sample cap of line 68
SAMPLE_CAP == 5

----------------------------------------------------------------------------
(* build_influencers_with_tweets *)

\* lines 40-58: the record created at the first post of an author
NewRecord(aid, u) ==
    LET metrics == GetOrDict(u, "public_metrics") IN
    [ user_id            |-> aid,
      username           |-> GetOrEmpty(u, "username"),
      name               |-> GetOrEmpty(u, "name"),
      verified           |-> IF "verified" \in DOMAIN u THEN u.verified ELSE FALSE,
      followers_count    |-> GetOrZero(metrics, "followers_count"),
      following_count    |-> GetOrZero(metrics, "following_count"),
      tweet_count        |-> GetOrZero(metrics, "tweet_count"),
      listed_count       |-> GetOrZero(metrics, "listed_count"),
      created_at         |-> GetOrEmpty(u, "created_at"),
      profile_image_url  |-> GetOrEmpty(u, "profile_image_url"),
      tweets_found       |-> 0,
      total_likes        |-> 0,
      total_retweets     |-> 0,
      total_replies      |-> 0,
      sample_tweets      |-> <<>>,
      sample_tweet_ids   |-> <<>>,
      sample_tweet_dates |-> <<>> ]

\* variant: a post without public_metrics is not counted
CountTweetWithMetricsOnly(rec, t) ==
    IF "public_metrics" \notin DOMAIN t THEN rec
    ELSE [rec EXCEPT !.tweets_found   = @ + 1,
                     !.total_likes    = @ + GetOrZero(t.public_metrics, "like_count"),
                     !.total_retweets = @ + GetOrZero(t.public_metrics, "retweet_count"),
                     !.total_replies  = @ + GetOrZero(t.public_metrics, "reply_count")]

\* lines 60-64: the counters every post of the author adds to
CountTweet(rec, t) ==
    LET pm == GetOrDict(t, "public_metrics") IN
    [rec EXCEPT !.tweets_found   = @ + 1,
                !.total_likes    = @ + GetOrZero(pm, "like_count"),
                !.total_retweets = @ + GetOrZero(pm, "retweet_count"),
                !.total_replies  = @ + GetOrZero(pm, "reply_count")]

\* lines 65-73: the sample lists
TweetText(t) == Strip(IF "text" \in DOMAIN t THEN t.text ELSE <<>>)

\* variant: the sample without its cap
SampleTweetUncapped(rec, t) ==
    LET text          == TweetText(t)
        tweet_created == GetOrEmpty(t, "created_at")
    IN  IF text # <<>>
        THEN [rec EXCEPT
                !.sample_tweets      = Append(@, Truncate(text)),
                !.sample_tweet_ids   =
                    IF "id" \in DOMAIN t /\ t.id # "" THEN Append(@, t.id) ELSE @,
                !.sample_tweet_dates =
                    IF tweet_created # "" THEN Append(@, tweet_created) ELSE @]
        ELSE rec

SampleTweet(rec, t) ==
    LET text          == TweetText(t)
        tweet_created == GetOrEmpty(t, "created_at")
    IN  IF text # <<>> /\ Len(rec.sample_tweets) < SAMPLE_CAP
        THEN [rec EXCEPT
                !.sample_tweets      = Append(@, Truncate(text)),
                !.sample_tweet_ids   =
                    IF "id" \in DOMAIN t /\ t.id # "" THEN Append(@, t.id) ELSE @,
                !.sample_tweet_dates =
                    IF tweet_created # "" THEN Append(@, tweet_created) ELSE @]
        ELSE rec

\* lines 31-36: the posts the loop skips
Skipped(t, users) ==
    \/ "author_id" \notin DOMAIN t
    \/ t.author_id = ""
    \/ t.author_id \notin DOMAIN users
    \/ DOMAIN users[t.author_id] = {}

\* lines 39-59: the record the post is folded into
\* variant: a fresh record at every post
RecordForAlwaysNew(st, aid, u) == NewRecord(aid, u)

RecordFor(st, aid, u) ==
    IF aid \in DOMAIN st.by_author THEN st.by_author[aid] ELSE NewRecord(aid, u)

\* lines 30-73: one iteration of the loop over the posts;
\* st = [by_author, order], the dict and the insertion order of its keys
ProcessTweet(st, t, users) ==
    IF Skipped(t, users) THEN st
    ELSE LET aid == t.author_id
             rec == SampleTweet(CountTweet(RecordFor(st, aid, users[aid]), t), t)
         IN  [ by_author |-> [a \in DOMAIN st.by_author \cup {aid} |->
                                 IF a = aid THEN rec ELSE st.by_author[a]],
               order     |-> IF aid \in DOMAIN st.by_author
                             THEN st.order ELSE Append(st.order, aid) ]

EmptyBuild == [by_author |-> EmptyDict, order |-> <<>>]

RECURSIVE BuildFrom(_, _, _)
BuildFrom(st, tweets, users) ==
    IF tweets = <<>> THEN st
    ELSE BuildFrom(ProcessTweet(st, Head(tweets), users), Tail(tweets), users)

\* line 75: list(by_author.values())
Values(st) == [i \in 1..Len(st.order) |-> st.by_author[st.order[i]]]

build_influencers_with_tweets(tweets, users) == Values(BuildFrom(EmptyBuild, tweets, users))

----------------------------------------------------------------------------
(* The scorer: engagement_rate, total_engagement, looks_like_promo, recommend *)

\* thresholds, lines 15-24
MIN_FOLLOWERS_STRONG == 5000
MIN_ER_STRONG == [num |-> 8, den |-> 10000]
MIN_ENGAGEMENT_STRONG == 20
MIN_FOLLOWERS_CONSIDER == 2000
MIN_ER_CONSIDER == [num |-> 2, den |-> 10000]
MIN_ENGAGEMENT_CONSIDER == 5
MAX_FOLLOWING_RATIO == 50
\* the literals of recommend
DEAD_FEED_FOLLOWERS == 100000
MIN_FOLLOWERS_PROMO == 1000
LARGE_AUDIENCE_FOLLOWERS == 10000
\* variant: a zero too many in the literal
VERY_LOW_ER_Typo == [num |-> 5, den |-> 1000000]
VERY_LOW_ER == [num |-> 5, den |-> 100000]

\* a float: the exact quotient num/den; a division by zero raises
ZeroDivisionError == [error |-> "ZeroDivisionError"]
Div(n, d) == IF d = 0 THEN ZeroDivisionError ELSE [num |-> n, den |-> d]
Float0 == [num |-> 0, den |-> 1]
IsFloat(x) == "num" \in DOMAIN x

FloatGE(a, b) == a.num * b.den >= b.num * a.den
FloatLT(a, b) == a.num * b.den < b.num * a.den
FloatEQ(a, b) == a.num * b.den = b.num * a.den

\* lines 85-86
total_engagement(row) == row.total_likes + row.total_retweets + row.total_replies

\* lines 78-82
\* variant: the plain quotient of the docstring, without max(.., 1) and the zero test
engagement_rate_unguarded(row) ==
    LET total == row.total_likes + row.total_retweets + row.total_replies
        denom == row.tweets_found * row.followers_count
    IN  Div(total, denom)

engagement_rate(row) ==
    LET total == row.total_likes + row.total_retweets + row.total_replies
        denom == row.tweets_found * Max(row.followers_count, 1)
    IN  IF denom # 0 THEN Div(total, denom) ELSE Float0

\* str.lower() on the characters of the model
Lower(s) == [i \in 1..Len(s) |->
                IF s[i] = "H" THEN "h" ELSE IF s[i] = "T" THEN "t"
                ELSE IF s[i] = "P" THEN "p" ELSE s[i]]

\* " ".join(texts)
RECURSIVE Join(_)
Join(texts) ==
    IF texts = <<>> THEN <<>>
    ELSE IF Len(texts) = 1 THEN texts[1]
    ELSE texts[1] \o <<" ">> \o Join(Tail(texts))

\* w in s
Contains(s, w) ==
    \E i \in 1..(Len(s) - Len(w) + 1) : SubSeq(s, i, i + Len(w) - 1) = w

LinkWords ==
    { <<"h","t","t","p">>, <<"p","o","l","y","m","a","r","k","e","t">>,
      <<"e","u","p","h","o","r","i","a">>, <<".","f","i">> }
PositiveWords ==
    { <<"c","h","e","c","k">>, <<"t","r","y">>, <<"n","e","w">>,
      <<"l","a","u","n","c","h">>, <<"a","l","p","h","a">>, <<"g","e","m">>,
      <<"fire-emoji">>, <<"gem-emoji">>, <<"rocket-emoji">> }

\* lines 89-96
looks_like_promo(texts) ==
    IF texts = <<>> THEN FALSE
    ELSE LET joined   == Lower(Join(texts))
             has_link == \E w \in LinkWords : Contains(joined, w)
             positive == \E w \in PositiveWords : Contains(joined, w)
         IN  has_link \/ positive

\* lines 119-123 and 130-133: the two positive rules
IsStrong(followers, er, total_eng) ==
    /\ followers >= MIN_FOLLOWERS_STRONG
    /\ FloatGE(er, MIN_ER_STRONG)
    /\ total_eng >= MIN_ENGAGEMENT_STRONG

\* variant: the secondary clause without its audience test
IsConsiderAnyAudience(followers, er, total_eng) ==
    /\ followers >= MIN_FOLLOWERS_CONSIDER
    /\ \/ FloatGE(er, MIN_ER_CONSIDER)
       \/ total_eng >= MIN_ENGAGEMENT_CONSIDER

IsConsider(followers, er, total_eng) ==
    /\ followers >= MIN_FOLLOWERS_CONSIDER
    /\ \/ FloatGE(er, MIN_ER_CONSIDER)
       \/ total_eng >= MIN_ENGAGEMENT_CONSIDER /\ followers >= LARGE_AUDIENCE_FOLLOWERS

\* lines 112-143: the rules after the bot rule; the reason is kept as its
\* fixed text and the values formatted into it
RecommendAfterBot(row, er, total_eng) ==
    LET followers == row.followers_count
        sample    == IF "sample_tweets" \in DOMAIN row THEN row.sample_tweets ELSE <<>>
    IN  IF total_eng = 0 /\ followers > DEAD_FEED_FOLLOWERS
        THEN [rec |-> "Skip",
              reason |-> [text |-> "Large audience but zero engagement on these tweets - dead feed"]]
        ELSE IF followers < MIN_FOLLOWERS_PROMO
        THEN [rec |-> "Skip", reason |-> [text |-> "Too small audience for promo"]]
        ELSE IF IsStrong(followers, er, total_eng)
        THEN [rec |-> "Strong hire",
              reason |-> [text |-> "ER, engagements, live audience",
                          er |-> er, total_eng |-> total_eng,
                          promo |-> looks_like_promo(sample)]]
        ELSE IF IsConsider(followers, er, total_eng)
        THEN [rec |-> "Consider",
              reason |-> IF FloatLT(er, MIN_ER_CONSIDER) /\ total_eng >= MIN_ENGAGEMENT_CONSIDER
                         THEN [text |-> "Large audience, some engagement",
                               followers |-> followers, total_eng |-> total_eng]
                         ELSE [text |-> "ER, engagements", er |-> er, total_eng |-> total_eng]]
        ELSE IF total_eng = 0
        THEN [rec |-> "Skip", reason |-> [text |-> "No engagement on found tweets - dead audience"]]
        ELSE IF FloatLT(er, VERY_LOW_ER)
        THEN [rec |-> "Skip", reason |-> [text |-> "Very low ER", er |-> er]]
        ELSE [rec |-> "Skip", reason |-> [text |-> "Below Consider threshold"]]

\* lines 99-143
\* variant: the Strong hire rule tried before the bot rule
recommend_strong_first(row, er, total_eng) ==
    IF IsStrong(row.followers_count, er, total_eng)
    THEN RecommendAfterBot(row, er, total_eng)
    ELSE IF row.followers_count > 0
            /\ row.following_count > MAX_FOLLOWING_RATIO * row.followers_count
    THEN [rec |-> "Skip",
          reason |-> [text |-> "Following >> followers, likely bot or follow-back account"]]
    ELSE RecommendAfterBot(row, er, total_eng)

recommend(row, er, total_eng) ==
    LET followers == row.followers_count
        following == row.following_count
    IN  IF followers > 0 /\ following > MAX_FOLLOWING_RATIO * followers
        THEN [rec |-> "Skip",
              reason |-> [text |-> "Following >> followers, likely bot or follow-back account"]]
        ELSE RecommendAfterBot(row, er, total_eng)

----------------------------------------------------------------------------
(* Inputs of the aggregation: profiles and posts as the search API returns them *)

\* a profile with every requested field
U1 == [ id |-> "u1", username |-> "alice", name |-> "Alice", verified |-> TRUE,
        created_at |-> "2020-01-01",
        public_metrics |-> [ followers_count |-> 6000, following_count |-> 100,
                             tweet_count |-> 10, listed_count |-> 1 ] ]
\* a profile with nothing but its id
U2 == [ id |-> "u2" ]

Users == [a \in {"u1", "u2"} |-> IF a = "u1" THEN U1 ELSE U2]

\* a text longer than the slice of line 69, with whitespace around it
LongText == <<" ">> \o [i \in 1..(SAMPLE_TEXT_LIMIT + 1) |-> "x"] \o <<" ">>

T1 == [ id |-> "t1", author_id |-> "u1", text |-> <<"h", "i">>, created_at |-> "d1",
        public_metrics |-> [like_count |-> 3, retweet_count |-> 1, reply_count |-> 1] ]
\* whitespace-only text, no metrics
T2 == [ id |-> "t2", author_id |-> "u1", text |-> <<" ", " ">>, created_at |-> "d2" ]
\* no id, no created_at, partial metrics
T3 == [ author_id |-> "u1", text |-> <<" ", "y", "o", " ">>,
        public_metrics |-> [like_count |-> 2] ]
T4 == [ id |-> "t4", author_id |-> "u2", text |-> LongText, created_at |-> "d4",
        public_metrics |-> [retweet_count |-> 2, reply_count |-> 1] ]
\* no author_id, no text
T5 == [ id |-> "t5", created_at |-> "d5" ]
\* an author the response carries no profile of
T6 == [ id |-> "t6", author_id |-> "u3", text |-> <<"z">>, created_at |-> "d6",
        public_metrics |-> [like_count |-> 1, retweet_count |-> 0, reply_count |-> 0] ]

TweetInputs == {T1, T2, T3, T4, T5, T6}

----------------------------------------------------------------------------
(* The aggregation loop, one post at a time *)

InitAgg ==
    /\ pc = "build"
    /\ qi = 1 /\ page = 0 /\ next_token = "" /\ s_tweets = <<>> /\ s_users = EmptyDict
    /\ sent_token = "" /\ last = [status |-> 0, ok_token |-> "", seq |-> 0]
    /\ n429 = 0 /\ ok_pages = 0
    /\ all_tweets = <<>> /\ all_users = Users
    /\ by_author = EmptyDict /\ order = <<>>
    /\ influencers = <<>> /\ csv = <<>> /\ csv_written = FALSE
    /\ rows = <<>> /\ html = EmptyDict
    /\ arg = EmptyDict /\ result = EmptyDict

\* lines 30-73: the loop body on the next post of the input
BuildStep ==
    /\ pc = "build"
    /\ Len(all_tweets) < MaxTweets
    /\ \E t \in TweetInputs :
         LET st == ProcessTweet([by_author |-> by_author, order |-> order], t, all_users)
         IN  /\ all_tweets' = Append(all_tweets, t)
             /\ by_author' = st.by_author
             /\ order' = st.order
    /\ UNCHANGED <<pc, qi, searchVars, all_users, influencers, csv, csv_written, callVars, exportVars>>

\* line 75: the input is exhausted, the records are returned in insertion order
BuildReturn ==
    /\ pc = "build"
    /\ influencers' = Values([by_author |-> by_author, order |-> order])
    /\ pc' = "score"
    /\ UNCHANGED <<qi, searchVars, all_tweets, all_users, buildVars, csv, csv_written, callVars, exportVars>>

NextAgg == BuildStep \/ BuildReturn

SpecAgg == InitAgg /\ [][NextAgg]_vars

----------------------------------------------------------------------------
(* Claims about the aggregation (checked under SpecAgg) *)

\* the posts of the input so far that carry author id a
PostsOf(a) == SelectSeq(all_tweets, LAMBDA t : "author_id" \in DOMAIN t /\ t.author_id = a)

\* those of them whose stripped text is non-empty
TextPostsOf(a) == SelectSeq(PostsOf(a), LAMBDA t : "text" \in DOMAIN t /\ Strip(t.text) # <<>>)

RECURSIVE SumOver(_, _)
SumOver(posts, k) ==
    IF posts = <<>> THEN 0
    ELSE (IF "public_metrics" \in DOMAIN Head(posts) /\ k \in DOMAIN Head(posts).public_metrics
          THEN Head(posts).public_metrics[k] ELSE 0) + SumOver(Tail(posts), k)

\* C2 (as claimed): after any sequence of posts, including posts whose id or
\* created_at is missing or empty, the three sample lists of every author
\* record have the same length.
C2_SampleListsInLockstep ==
    \A a \in DOMAIN by_author :
        /\ Len(by_author[a].sample_tweets) = Len(by_author[a].sample_tweet_ids)
        /\ Len(by_author[a].sample_tweets) = Len(by_author[a].sample_tweet_dates)

\* C3: an author's sample_tweets holds at most 5 entries, namely the stripped
\* (and sliced) texts of the author's first up to 5 posts with non-empty
\* stripped text, in input order; every post of the author, sampled or not,
\* is counted in tweets_found and in the three interaction totals.
C3_SampleIsFirstFive ==
    \A a \in DOMAIN by_author :
        LET rec   == by_author[a]
            texts == TextPostsOf(a)
            n     == IF Len(texts) < 5 THEN Len(texts) ELSE 5
        IN  /\ Len(rec.sample_tweets) <= 5
            /\ Len(rec.sample_tweets) = n
            /\ \A i \in 1..n :
                 rec.sample_tweets[i] =
                     SubSeq(Strip(texts[i].text), 1,
                            IF Len(Strip(texts[i].text)) < 500 THEN Len(Strip(texts[i].text)) ELSE 500)
            /\ rec.tweets_found = Len(PostsOf(a))
            /\ rec.total_likes = SumOver(PostsOf(a), "like_count")
            /\ rec.total_retweets = SumOver(PostsOf(a), "retweet_count")
            /\ rec.total_replies = SumOver(PostsOf(a), "reply_count")

\* C3 witness: an author with a sixth text post, counted but not sampled
C3_Witness ==
    \E a \in DOMAIN by_author :
        /\ Len(TextPostsOf(a)) > 5
        /\ Len(by_author[a].sample_tweets) = 5
        /\ by_author[a].tweets_found > 5

ProfileFields(rec) ==
    <<rec.username, rec.name, rec.verified, rec.followers_count, rec.following_count,
      rec.tweet_count, rec.listed_count, rec.created_at, rec.profile_image_url>>

IsPrefix(s, t) == Len(s) <= Len(t) /\ SubSeq(t, 1, Len(s)) = s

\* C4: the profile-derived fields of a record are set from the author's
\* profile when the author's first post is processed, and no later post
\* changes them; a later post of the author adds one to tweets_found, adds to
\* the interaction totals and can only append to the sample lists.
C4_ProfileSetOnce ==
    [][ /\ \A a \in DOMAIN by_author :
             /\ a \in DOMAIN by_author'
             /\ ProfileFields(by_author'[a]) = ProfileFields(by_author[a])
             /\ by_author'[a].user_id = by_author[a].user_id
             /\ by_author'[a].tweets_found \in
                    {by_author[a].tweets_found, by_author[a].tweets_found + 1}
             /\ by_author'[a].total_likes >= by_author[a].total_likes
             /\ by_author'[a].total_retweets >= by_author[a].total_retweets
             /\ by_author'[a].total_replies >= by_author[a].total_replies
             /\ IsPrefix(by_author[a].sample_tweets, by_author'[a].sample_tweets)
             /\ IsPrefix(by_author[a].sample_tweet_ids, by_author'[a].sample_tweet_ids)
             /\ IsPrefix(by_author[a].sample_tweet_dates, by_author'[a].sample_tweet_dates)
        /\ \A a \in DOMAIN by_author' \ DOMAIN by_author :
             LET u == all_users[a]
                 m == IF "public_metrics" \in DOMAIN u THEN u.public_metrics ELSE EmptyDict
                 F(d, k, dflt) == IF k \in DOMAIN d THEN d[k] ELSE dflt
             IN  ProfileFields(by_author'[a]) =
                    <<F(u, "username", ""), F(u, "name", ""), F(u, "verified", FALSE),
                      F(m, "followers_count", 0), F(m, "following_count", 0),
                      F(m, "tweet_count", 0), F(m, "listed_count", 0),
                      F(u, "created_at", ""), F(u, "profile_image_url", "")>>
      ]_vars

\* C4 witness: a second post of an author with a full profile was processed,
\* next to an author whose profile has no fields
C4_Witness ==
    /\ "u1" \in DOMAIN by_author /\ by_author["u1"].tweets_found >= 2
    /\ by_author["u1"].followers_count = 6000 /\ by_author["u1"].username = "alice"
    /\ "u2" \in DOMAIN by_author /\ by_author["u2"].tweets_found >= 2

----------------------------------------------------------------------------
(* main, after the aggregation: scoring, sorting, recommendations.csv *)

\* lines 170-177: the derived fields of one row
ScoreRow(row) ==
    LET er        == engagement_rate(row)
        total_eng == total_engagement(row)
        r         == recommend(row, er, total_eng)
    IN  [ engagement_rate |-> er, total_engagement |-> total_eng,
          recommendation |-> r.rec, recommendation_reason |-> r.reason ] @@ row

\* line 180: order.get(x["recommendation"], 2)
TierOrder(rec) == IF rec = "Strong hire" THEN 0 ELSE IF rec = "Consider" THEN 1 ELSE 2

\* variant: the key without its third component
KeyLessNoFollowers(a, b) ==
    LET oa == TierOrder(a.recommendation)
        ob == TierOrder(b.recommendation)
    IN  \/ oa < ob
        \/ /\ oa = ob
           /\ FloatLT(b.engagement_rate, a.engagement_rate)

\* lines 182-186: the sort key (order, -engagement_rate, -followers_count),
\* compared as Python compares tuples
KeyLess(a, b) ==
    LET oa == TierOrder(a.recommendation)
        ob == TierOrder(b.recommendation)
    IN  \/ oa < ob
        \/ /\ oa = ob
           /\ \/ FloatLT(b.engagement_rate, a.engagement_rate)
              \/ /\ FloatEQ(a.engagement_rate, b.engagement_rate)
                 /\ b.followers_count < a.followers_count

\* list.sort is stable: a row goes before the first row of a greater key
RECURSIVE InsertRow(_, _)
InsertRow(sorted, x) ==
    IF sorted = <<>> THEN <<x>>
    ELSE IF KeyLess(x, Head(sorted)) THEN <<x>> \o sorted
    ELSE <<Head(sorted)>> \o InsertRow(Tail(sorted), x)

RECURSIVE SortRows(_)
SortRows(list) ==
    IF list = <<>> THEN <<>>
    ELSE InsertRow(SortRows(SubSeq(list, 1, Len(list) - 1)), list[Len(list)])

\* line 239: f"{er:.4f}", as the number of 1e-4 units printed.  An exact
\* decimal tie is no tie for the double, whose binary error decides it:
\* both neighbours are possible outcomes.
Fmt4(er) ==
    LET q == (er.num * 10000) \div er.den
        r == (er.num * 10000) % er.den
    IN  IF 2 * r < er.den THEN {q}
        ELSE IF 2 * r > er.den THEN {q + 1}
        ELSE {q, q + 1}

\* float(row["engagement_rate"]) of a stored 4-decimal string
ParseFmt4(k) == [num |-> k, den |-> 10000]

\* lines 243-247: column i of the three sample lists; "" is the empty sequence
ColumnOf(list, i) == IF Len(list) >= i THEN list[i] ELSE <<>>
DateColumnOf(list, i) == IF Len(list) >= i THEN list[i] ELSE ""
UrlColumnOf(uname, ids, i) ==
    IF Len(ids) >= i THEN <<"https://x.com", uname, "status", ids[i]>> ELSE <<>>

\* lines 222-248: the row written for an author, with the rate printed as k
CsvRow(row, k) ==
    [ recommendation        |-> row.recommendation,
      username              |-> row.username,
      name                  |-> row.name,
      profile_url           |-> <<"https://x.com", row.username>>,
      profile_image_url     |-> row.profile_image_url,
      followers_count       |-> row.followers_count,
      following_count       |-> row.following_count,
      listed_count          |-> IF row.listed_count = 0 THEN "" ELSE row.listed_count,
      created_at            |-> row.created_at,
      tweets_found          |-> row.tweets_found,
      total_likes           |-> row.total_likes,
      total_retweets        |-> row.total_retweets,
      total_replies         |-> row.total_replies,
      total_engagement      |-> row.total_engagement,
      engagement_rate       |-> k,
      recommendation_reason |-> row.recommendation_reason,
      sample_tweet          |-> [i \in 1..3 |-> ColumnOf(row.sample_tweets, i)],
      tweet_date            |-> [i \in 1..3 |-> DateColumnOf(row.sample_tweet_dates, i)],
      tweet_url             |-> [i \in 1..3 |-> UrlColumnOf(row.username, row.sample_tweet_ids, i)] ]

\* lines 170-177
Score ==
    /\ pc = "score"
    /\ influencers' = [i \in 1..Len(influencers) |-> ScoreRow(influencers[i])]
    /\ pc' = "sort"
    /\ UNCHANGED <<qi, searchVars, all_tweets, all_users, buildVars, csv, csv_written, callVars, exportVars>>

\* lines 180-187
Sort ==
    /\ pc = "sort"
    /\ influencers' = SortRows(influencers)
    /\ pc' = "open"
    /\ UNCHANGED <<qi, searchVars, all_tweets, all_users, buildVars, csv, csv_written, callVars, exportVars>>

\* lines 218-220: the file is created (truncated) and the header written
OpenCsv ==
    /\ pc = "open"
    /\ csv' = <<>>
    /\ csv_written' = TRUE
    /\ pc' = "write"
    /\ UNCHANGED <<qi, searchVars, all_tweets, all_users, buildVars, influencers, callVars, exportVars>>

\* lines 221-248: the next row
WriteRow ==
    /\ pc = "write"
    /\ Len(csv) < Len(influencers)
    /\ \E k \in Fmt4(influencers[Len(csv) + 1].engagement_rate) :
         \* equal rates are the same double, and print the same
         /\ \A j \in 1..Len(csv) :
              FloatEQ(influencers[j].engagement_rate,
                      influencers[Len(csv) + 1].engagement_rate)
                => csv[j].engagement_rate = k
         /\ csv' = Append(csv, CsvRow(influencers[Len(csv) + 1], k))
    /\ UNCHANGED <<pc, qi, searchVars, all_tweets, all_users, buildVars, influencers,
                   csv_written, callVars, exportVars>>

\* lines 250-269: the file is closed, the summary printed
Finish ==
    /\ pc = "write"
    /\ Len(csv) = Len(influencers)
    /\ pc' = "done"
    /\ UNCHANGED <<qi, searchVars, all_tweets, all_users, buildVars, influencers, csv,
                   csv_written, callVars, exportVars>>

----------------------------------------------------------------------------
(* export_to_html.main on the file the driver wrote *)

\* lines 114 and 124: r.get("recommendation") or "Skip"
RecOrSkip(r) == IF r.recommendation = "" THEN "Skip" ELSE r.recommendation

\* lines 113 and 120: order.get(rec, 2)
ExportOrder(rec) == IF rec = "Strong hire" THEN 0 ELSE IF rec = "Consider" THEN 1 ELSE 2

\* variant: the key without the tier
ExportKeyLessRateOnly(a, b) ==
    FloatLT(ParseFmt4(b.engagement_rate), ParseFmt4(a.engagement_rate))

\* lines 114-120: the key (order, -float(engagement_rate)), compared as
\* Python compares tuples
ExportKeyLess(a, b) ==
    LET oa == ExportOrder(RecOrSkip(a))
        ob == ExportOrder(RecOrSkip(b))
    IN  \/ oa < ob
        \/ /\ oa = ob
           /\ FloatLT(ParseFmt4(b.engagement_rate), ParseFmt4(a.engagement_rate))

\* line 121: rows.sort(key=key), stable
RECURSIVE ExportInsert(_, _)
ExportInsert(sorted, x) ==
    IF sorted = <<>> THEN <<x>>
    ELSE IF ExportKeyLess(x, Head(sorted)) THEN <<x>> \o sorted
    ELSE <<Head(sorted)>> \o ExportInsert(Tail(sorted), x)

RECURSIVE ExportSort(_)
ExportSort(list) ==
    IF list = <<>> THEN <<>>
    ELSE ExportInsert(ExportSort(SubSeq(list, 1, Len(list) - 1)), list[Len(list)])

\* lines 169-174: the sample columns that get a tweet card
TweetCards(r) ==
    SelectSeq(<<1, 2, 3>>, LAMBDA i : Strip(r.sample_tweet[i]) # <<>> \/ r.tweet_url[i] # <<>>)

\* lines 124-202: the card of a row; er_pct is float(er) * 100 with two
\* decimals, in hundredths of a percent
Card(r) ==
    [ recommendation |-> RecOrSkip(r),
      username       |-> r.username,
      profile_url    |-> r.profile_url,
      er_pct         |-> r.engagement_rate,
      total_likes    |-> r.total_likes,
      total_retweets |-> r.total_retweets,
      total_replies  |-> r.total_replies,
      tweet_cards    |-> TweetCards(r) ]

\* lines 102-107: the rows of the file, in file order
ReadCsv ==
    /\ pc = "done" /\ csv_written
    /\ rows' = csv
    /\ pc' = "resort"
    /\ UNCHANGED <<qi, searchVars, all_tweets, all_users, buildVars, influencers, csv,
                   csv_written, callVars, html>>

\* lines 113-121
Resort ==
    /\ pc = "resort"
    /\ rows' = ExportSort(rows)
    /\ pc' = "render"
    /\ UNCHANGED <<qi, searchVars, all_tweets, all_users, buildVars, influencers, csv,
                   csv_written, callVars, html>>

\* lines 123-202 and 379: one card per row, and the count
Render ==
    /\ pc = "render"
    /\ html' = [cards |-> [i \in 1..Len(rows) |-> Card(rows[i])], total |-> Len(rows)]
    /\ pc' = "exported"
    /\ UNCHANGED <<qi, searchVars, all_tweets, all_users, buildVars, influencers, csv,
                   csv_written, callVars, rows>>

----------------------------------------------------------------------------
(* search_tweets and the query loop of main *)

\* the two queries of lines 150-153
NumQueries == 2

\* d.update(e), and the loop of lines 78-79
DictUpdate(d, e) == [k \in DOMAIN d \cup DOMAIN e |-> IF k \in DOMAIN e THEN e[k] ELSE d[k]]

RECURSIVE AddUsers(_, _)
AddUsers(d, users) ==
    IF users = <<>> THEN d
    ELSE AddUsers(DictUpdate(d, [k \in {Head(users).id} |-> Head(users)]), Tail(users))

\* the response bodies the endpoint answers with, before their meta
PageBodies ==
    { [data |-> <<T1, T3>>, includes |-> [users |-> <<U1>>]],
      [data |-> <<T2, T6>>, includes |-> [users |-> <<U1, U2>>]],
      EmptyDict }
Tokens == {"", "A", "B"}
ErrorStatuses == {401, 500}

WithMeta(body, tok) ==
    IF tok = "" THEN body ELSE [meta |-> [next_token |-> tok]] @@ body

\* line 75: data.get("data") or []
DataOf(body) == IF "data" \in DOMAIN body THEN body.data ELSE <<>>
\* line 78: data.get("includes", {}).get("users", [])
IncludedUsers(body) ==
    IF "includes" \in DOMAIN body /\ "users" \in DOMAIN body.includes
    THEN body.includes.users ELSE <<>>
\* line 81: data.get("meta", {}).get("next_token"); "" models None
TokenOf(body) ==
    IF "meta" \in DOMAIN body /\ "next_token" \in DOMAIN body.meta
    THEN body.meta.next_token ELSE ""

\* line 56: the loop test
LoopContinues == page < MaxPagesArg

\* the observation of a response: its status, the token of the last
\* successful response of the call, and a bit that tells requests apart
Observed(status, tok) == [status |-> status, ok_token |-> tok, seq |-> 1 - last.seq]

\* lines 57-71: a request answered 429
\* variant: the retry counted as a page
SearchRateLimitedCountsPage ==
    /\ pc = "search" /\ LoopContinues
    /\ sent_token' = next_token
    /\ last' = Observed(429, last.ok_token)
    /\ n429' = Min(n429 + 1, Max429)
    /\ page' = page + 1
    /\ UNCHANGED <<pc, qi, next_token, s_tweets, s_users, ok_pages, all_tweets,
                   all_users, buildVars, influencers, csv, csv_written, callVars, exportVars>>

\* variant: a cap on the retries
SearchRateLimitedGivesUp ==
    /\ pc = "search" /\ LoopContinues
    /\ sent_token' = next_token
    /\ last' = Observed(429, last.ok_token)
    /\ n429' = Min(n429 + 1, Max429)
    /\ pc' = IF n429 >= Max429 THEN "return" ELSE pc
    /\ UNCHANGED <<qi, page, next_token, s_tweets, s_users, ok_pages, all_tweets,
                   all_users, buildVars, influencers, csv, csv_written, callVars, exportVars>>

SearchRateLimited ==
    /\ pc = "search" /\ LoopContinues
    /\ sent_token' = next_token
    /\ last' = Observed(429, last.ok_token)
    /\ n429' = Min(n429 + 1, Max429)
    /\ UNCHANGED <<pc, qi, page, next_token, s_tweets, s_users, ok_pages, all_tweets,
                   all_users, buildVars, influencers, csv, csv_written, callVars, exportVars>>

\* lines 57-72: a request answered with an error status; raise_for_status
\* raises, and nothing in search_tweets or main catches it
\* variant: the error ends the call with the pages fetched so far
SearchErrorSwallowed ==
    /\ pc = "search" /\ LoopContinues
    /\ \E st \in ErrorStatuses : last' = Observed(st, last.ok_token)
    /\ sent_token' = next_token
    /\ pc' = "return"
    /\ UNCHANGED <<qi, page, next_token, s_tweets, s_users, n429, ok_pages, all_tweets,
                   all_users, buildVars, influencers, csv, csv_written, callVars, exportVars>>

SearchError ==
    /\ pc = "search" /\ LoopContinues
    /\ \E st \in ErrorStatuses : last' = Observed(st, last.ok_token)
    /\ sent_token' = next_token
    /\ pc' = "raised"
    /\ UNCHANGED <<qi, page, next_token, s_tweets, s_users, n429, ok_pages, all_tweets,
                   all_users, buildVars, influencers, csv, csv_written, callVars, exportVars>>

\* lines 57-85: a request answered 200
\* variant: no break on a page without next_token
SearchPageNoBreak ==
    /\ pc = "search" /\ LoopContinues
    /\ \E b \in PageBodies : \E tok \in Tokens :
         LET body == WithMeta(b, tok) IN
         /\ sent_token' = next_token
         /\ last' = Observed(200, TokenOf(body))
         /\ s_tweets' = s_tweets \o DataOf(body)
         /\ s_users' = AddUsers(s_users, IncludedUsers(body))
         /\ next_token' = TokenOf(body)
         /\ ok_pages' = ok_pages + 1
         /\ page' = page + 1
         /\ pc' = "search"
    /\ UNCHANGED <<qi, n429, all_tweets, all_users, buildVars, influencers, csv,
                   csv_written, callVars, exportVars>>

SearchPage ==
    /\ pc = "search" /\ LoopContinues
    /\ \E b \in PageBodies : \E tok \in Tokens :
         LET body == WithMeta(b, tok) IN
         /\ sent_token' = next_token
         /\ last' = Observed(200, TokenOf(body))
         /\ s_tweets' = s_tweets \o DataOf(body)
         /\ s_users' = AddUsers(s_users, IncludedUsers(body))
         /\ next_token' = TokenOf(body)
         /\ ok_pages' = ok_pages + 1
         /\ IF TokenOf(body) = ""
            THEN page' = page /\ pc' = "return"
            ELSE page' = page + 1 /\ pc' = "search"
    /\ UNCHANGED <<qi, n429, all_tweets, all_users, buildVars, influencers, csv,
                   csv_written, callVars, exportVars>>

\* line 87 and main lines 158-165: the call returns, main merges its result
\* and starts the next call (lines 51-54) or goes on to the aggregation
\* variant: the posts of the call replace those of the calls before
SearchReturnKeepsLastQuery ==
    /\ \/ pc = "return"
       \/ pc = "search" /\ ~LoopContinues
    /\ all_tweets' = s_tweets
    /\ all_users' = DictUpdate(all_users, s_users)
    /\ IF qi < NumQueries
       THEN /\ qi' = qi + 1
            /\ pc' = "search"
       ELSE /\ qi' = qi
            /\ pc' = "build"
    /\ page' = 0 /\ next_token' = "" /\ s_tweets' = <<>> /\ s_users' = EmptyDict
    /\ sent_token' = "" /\ last' = Observed(0, "") /\ n429' = 0 /\ ok_pages' = 0
    /\ UNCHANGED <<buildVars, influencers, csv, csv_written, callVars, exportVars>>

SearchReturn ==
    /\ \/ pc = "return"
       \/ pc = "search" /\ ~LoopContinues
    /\ all_tweets' = all_tweets \o s_tweets
    /\ all_users' = DictUpdate(all_users, s_users)
    /\ IF qi < NumQueries
       THEN /\ qi' = qi + 1
            /\ pc' = "search"
       ELSE /\ qi' = qi
            /\ pc' = "build"
    /\ page' = 0 /\ next_token' = "" /\ s_tweets' = <<>> /\ s_users' = EmptyDict
    /\ sent_token' = "" /\ last' = Observed(0, "") /\ n429' = 0 /\ ok_pages' = 0
    /\ UNCHANGED <<buildVars, influencers, csv, csv_written, callVars, exportVars>>

\* main line 167: the aggregation over the merged posts of all queries
Build ==
    /\ pc = "build"
    /\ LET st == BuildFrom(EmptyBuild, all_tweets, all_users)
       IN  /\ by_author' = st.by_author
           /\ order' = st.order
    /\ influencers' = build_influencers_with_tweets(all_tweets, all_users)
    /\ pc' = "score"
    /\ UNCHANGED <<qi, searchVars, all_tweets, all_users, csv, csv_written, callVars, exportVars>>

Init ==
    /\ pc = "search"
    /\ qi = 1 /\ page = 0 /\ next_token = "" /\ s_tweets = <<>> /\ s_users = EmptyDict
    /\ sent_token = "" /\ last = [status |-> 0, ok_token |-> "", seq |-> 0]
    /\ n429 = 0 /\ ok_pages = 0
    /\ all_tweets = <<>> /\ all_users = EmptyDict
    /\ by_author = EmptyDict /\ order = <<>>
    /\ influencers = <<>> /\ csv = <<>> /\ csv_written = FALSE
    /\ rows = <<>> /\ html = EmptyDict
    /\ arg = EmptyDict /\ result = EmptyDict

Next ==
    \/ SearchRateLimited \/ SearchError \/ SearchPage \/ SearchReturn
    \/ Build \/ Score \/ Sort \/ OpenCsv \/ WriteRow \/ Finish

Spec == Init /\ [][Next]_vars

\* the steps of the query loop
SearchStep == SearchRateLimited \/ SearchError \/ SearchPage \/ SearchReturn

\* the run is a sequential program: while it is in the query loop it sends
\* its next request, or returns, whenever it can
FairSpec == Spec /\ WF_vars(SearchStep)

----------------------------------------------------------------------------
(* Scoring, writing and exporting of drawn aggregated rows *)

\* an aggregated row as build_influencers_with_tweets returns it
AggRow(uname, followers, following, found, likes, retweets, replies) ==
    [ user_id            |-> uname,
      username           |-> uname,
      name               |-> uname,
      verified           |-> FALSE,
      followers_count    |-> followers,
      following_count    |-> following,
      tweet_count        |-> 10,
      listed_count       |-> 0,
      created_at         |-> "",
      profile_image_url  |-> "",
      tweets_found       |-> found,
      total_likes        |-> likes,
      total_retweets     |-> retweets,
      total_replies      |-> replies,
      sample_tweets      |-> << <<"h", "i">> >>,
      sample_tweet_ids   |-> <<"t1">>,
      sample_tweet_dates |-> <<"d1">> ]

RowInputs ==
    { AggRow("strong",     6000,    100, 1, 20, 3, 2),   \* rate 25/6000
      AggRow("strong2",    6000,    100, 2, 40, 6, 4),   \* the same rate
      AggRow("nearstrong", 50000,   100, 1, 38, 0, 0),   \* rate 0.00076
      AggRow("edge",       5000,    100, 1, 4, 0, 0),    \* rate 0.0008, 4 engagements
      AggRow("large",      20000,   100, 2, 3, 2, 1),    \* rate 0.00015, 6 engagements
      AggRow("nearcons",   3000,    100, 2, 1, 0, 0),    \* rate 1/6000
      AggRow("low",        50000,   100, 2, 2, 1, 1),    \* rate 0.00004
      AggRow("silent",     3000,    100, 1, 0, 0, 0),
      AggRow("dead",       200000,  10,  1, 0, 0, 0),
      AggRow("small",      500,     10,  1, 5, 0, 0),
      AggRow("nofollow",   0,       0,   1, 3, 0, 0),
      AggRow("bot",        6000, 400000, 1, 30, 0, 0) }

RECURSIVE SeqsUpTo(_, _)
SeqsUpTo(S, n) ==
    IF n = 0 THEN {<<>>}
    ELSE LET shorter == SeqsUpTo(S, n - 1)
         IN  shorter \cup {Append(q, x) : q \in shorter, x \in S}

InitScore ==
    /\ pc = "score"
    /\ qi = 1 /\ page = 0 /\ next_token = "" /\ s_tweets = <<>> /\ s_users = EmptyDict
    /\ sent_token = "" /\ last = [status |-> 0, ok_token |-> "", seq |-> 0]
    /\ n429 = 0 /\ ok_pages = 0
    /\ all_tweets = <<>> /\ all_users = EmptyDict
    /\ by_author = EmptyDict /\ order = <<>>
    /\ influencers \in SeqsUpTo(RowInputs, MaxRows)
    /\ csv = <<>> /\ csv_written = FALSE
    /\ rows = <<>> /\ html = EmptyDict
    /\ arg = EmptyDict /\ result = EmptyDict

NextScore == Score \/ Sort \/ OpenCsv \/ WriteRow \/ Finish \/ ReadCsv \/ Resort \/ Render

SpecScore == InitScore /\ [][NextScore]_vars

\* C9 (as claimed): for every row written to recommendations.csv, recommend
\* applied to the row's stored followers_count, following_count,
\* total_engagement and 4-decimal engagement_rate yields the stored
\* recommendation.
C9_StoredRowReproducesTier ==
    \A i \in 1..Len(csv) :
        recommend([followers_count |-> csv[i].followers_count,
                   following_count |-> csv[i].following_count,
                   sample_tweets   |-> <<>>],
                  ParseFmt4(csv[i].engagement_rate),
                  csv[i].total_engagement).rec = csv[i].recommendation

----------------------------------------------------------------------------
(* Direct calls of the scorer functions on drawn arguments *)

\* rows for engagement_rate
RateRows ==
    [ tweets_found : 0..2, followers_count : {0, 1, 3000},
      total_likes : {0, 1, 5}, total_retweets : {0, 2}, total_replies : {0, 1} ]

\* arguments for recommend
FollowersInputs == {0, 999, 1000, 1999, 2000, 3000, 4999, 5000, 6000, 9999, 10000, 100000, 100001}
FollowingInputs(f) == {0, MAX_FOLLOWING_RATIO * f, MAX_FOLLOWING_RATIO * f + 1, 51 * f}
ErInputs ==
    { [num |-> 0, den |-> 1], [num |-> 4, den |-> 100000], [num |-> 5, den |-> 100000],
      [num |-> 1, den |-> 10000], [num |-> 19, den |-> 100000], [num |-> 2, den |-> 10000],
      [num |-> 79, den |-> 100000], [num |-> 8, den |-> 10000], [num |-> 1, den |-> 1000] }
TotalEngInputs == {0, 4, 5, 6, 19, 20, 25}
SampleInputs == { <<>>, << <<"H", "T", "T", "P", ":", "x">> >>, << <<"h", "i">>, <<"y", "o">> >> }

InitFn ==
    /\ pc = "call"
    /\ qi = 1 /\ page = 0 /\ next_token = "" /\ s_tweets = <<>> /\ s_users = EmptyDict
    /\ sent_token = "" /\ last = [status |-> 0, ok_token |-> "", seq |-> 0]
    /\ n429 = 0 /\ ok_pages = 0
    /\ all_tweets = <<>> /\ all_users = EmptyDict
    /\ by_author = EmptyDict /\ order = <<>>
    /\ influencers = <<>> /\ csv = <<>> /\ csv_written = FALSE
    /\ rows = <<>> /\ html = EmptyDict
    /\ result = EmptyDict
    /\ \/ \E row \in RateRows : arg = [fn |-> "engagement_rate", row |-> row]
       \/ \E f \in FollowersInputs : \E g \in FollowingInputs(f) : \E er \in ErInputs :
          \E te \in TotalEngInputs : \E sm \in SampleInputs :
            arg = [ fn |-> "recommend",
                    row |-> [followers_count |-> f, following_count |-> g, sample_tweets |-> sm],
                    er |-> er, total_eng |-> te ]

CallEngagementRate ==
    /\ pc = "call" /\ arg.fn = "engagement_rate"
    /\ result' = engagement_rate(arg.row)
    /\ pc' = "returned"
    /\ UNCHANGED <<qi, searchVars, all_tweets, all_users, buildVars, influencers, csv,
                   csv_written, arg, exportVars>>

CallRecommend ==
    /\ pc = "call" /\ arg.fn = "recommend"
    /\ result' = recommend(arg.row, arg.er, arg.total_eng)
    /\ pc' = "returned"
    /\ UNCHANGED <<qi, searchVars, all_tweets, all_users, buildVars, influencers, csv,
                   csv_written, arg, exportVars>>

NextFn == CallEngagementRate \/ CallRecommend

SpecFn == InitFn /\ [][NextFn]_vars

----------------------------------------------------------------------------
(* Claims about the scorer functions (checked under SpecFn) *)

RateReturned == pc = "returned" /\ arg.fn = "engagement_rate"
RecommendReturned == pc = "returned" /\ arg.fn = "recommend"

\* C1 (as claimed): for every row with followers_count = 0 or tweets_found = 0
\* engagement_rate returns exactly 0.0 and raises no division error.
C1_ZeroFollowersOrTweetsGivesZero ==
    (RateReturned /\ (arg.row.followers_count = 0 \/ arg.row.tweets_found = 0))
        => (IsFloat(result) /\ result.num = 0)

\* C1 (amended): engagement_rate never raises a division error; for a row
\* with tweets_found = 0 it returns exactly 0.0; for a row with
\* followers_count = 0 and tweets_found > 0 the follower count is taken as 1
\* and it returns total / tweets_found, which is 0.0 only when the three
\* totals sum to 0.
C1_ZeroTweetsGivesZero ==
    RateReturned =>
        LET row   == arg.row
            total == row.total_likes + row.total_retweets + row.total_replies
        IN  /\ IsFloat(result)
            /\ row.tweets_found = 0 => result.num = 0
            /\ (row.followers_count = 0 /\ row.tweets_found > 0) =>
                   /\ result.num * row.tweets_found = total * result.den
                   /\ (result.num = 0 <=> total = 0)

\* C1 witness: a row without followers, with posts and interactions, scored
\* with its follower count taken as 1
C1_Witness ==
    /\ RateReturned
    /\ arg.row.followers_count = 0 /\ arg.row.tweets_found = 2
    /\ arg.row.total_likes + arg.row.total_retweets + arg.row.total_replies = 8
    /\ IsFloat(result) /\ result.num * 2 = 8 * result.den

\* C10 (as claimed): followers_count = 6000, rate 0.001 and total engagement
\* 25 are classified "Strong hire" for every value of the other fields, in
\* particular following_count.
C10_StrongHireWhateverFollowing ==
    ( /\ RecommendReturned
      /\ arg.row.followers_count = 6000
      /\ arg.er = [num |-> 1, den |-> 1000]
      /\ arg.total_eng = 25 )
        => result.rec = "Strong hire"

\* C10 (amended): followers_count = 6000, rate 0.001 and total engagement 25
\* are classified "Strong hire" exactly when following_count is at most
\* 50 x 6000 = 300000, whatever the sampled texts are; with a larger
\* following_count the bot rule classifies the author "Skip".
C10_StrongHireUnlessBot ==
    ( /\ RecommendReturned
      /\ arg.row.followers_count = 6000
      /\ arg.er = [num |-> 1, den |-> 1000]
      /\ arg.total_eng = 25 )
        => /\ arg.row.following_count <= 300000 => result.rec = "Strong hire"
           /\ arg.row.following_count > 300000 => result.rec = "Skip"

\* C10 witness: the author at the largest following_count the bot rule lets pass
C10_Witness ==
    /\ RecommendReturned
    /\ arg.row.followers_count = 6000 /\ arg.row.following_count = 300000
    /\ arg.er = [num |-> 1, den |-> 1000] /\ arg.total_eng = 25
    /\ arg.row.sample_tweets # <<>>
    /\ result.rec = "Strong hire"

----------------------------------------------------------------------------
(* Claims about search_tweets and the run (checked under Spec and FairSpec) *)

\* a step from here sends a request
AtRequest == pc = "search" /\ page < MaxPagesArg

\* C5: a 429 response changes neither the page counter nor the continuation
\* token nor the accumulated posts and profiles, and the call stays in its
\* loop; the request after a 429 carries the same next_token as the
\* rate-limited one; the page counter counts successful pages only (it
\* equals their number whatever the number of 429 responses), so 429
\* responses take nothing from the max_pages budget.
C5_RateLimitKeepsPage ==
    /\ [][ (AtRequest /\ last'.status = 429) =>
             /\ page' = page /\ next_token' = next_token
             /\ s_tweets' = s_tweets /\ s_users' = s_users
             /\ all_tweets' = all_tweets /\ all_users' = all_users
             /\ ok_pages' = ok_pages /\ pc' = "search" /\ qi' = qi ]_vars
    /\ [][ (AtRequest /\ last.status = 429) => sent_token' = sent_token ]_vars
    /\ [](pc = "search" => page = ok_pages)

\* C5 witness: after repeated 429 responses the call still fetched max_pages pages
C5_Witness ==
    /\ pc = "search" /\ n429 >= 2 /\ ok_pages = MaxPagesArg /\ last.status = 200

\* C6: a call processes at most max_pages successful responses; it sends no
\* request after a successful response without next_token; the first request
\* carries no next_token and every request after a successful page carries
\* the next_token of the last successful page.
C6_PagingStops ==
    /\ [](ok_pages <= MaxPagesArg)
    /\ [][ ok_pages' = ok_pages + 1 => (AtRequest /\ ok_pages < MaxPagesArg) ]_vars
    /\ [][ (ok_pages' = ok_pages + 1 /\ last'.ok_token = "") => pc' = "return" ]_vars
    /\ [][ pc = "return" =>
             (sent_token' = "" /\ ok_pages' = 0 /\ pc' \in {"search", "build"}) ]_vars
    /\ [][ (pc = "search" /\ last'.seq # last.seq /\ pc' # "build" /\ qi' = qi) =>
             sent_token' = (IF ok_pages = 0 THEN "" ELSE last.ok_token) ]_vars
    /\ []((pc = "search" /\ ok_pages > 0) => last.ok_token # "")

\* C6 witness: a call stopped by a successful page without next_token,
\* after a page that carried one
C6_Witness ==
    /\ pc = "return" /\ ok_pages >= 2 /\ sent_token # "" /\ last.ok_token = ""
    /\ last.status = 200

\* C7: search_tweets has no cap on rate-limit retries: when 429 is answered
\* only finitely often every call ends (the query loop is left, by the last
\* return or by a raise), and when every response is 429 the first call
\* never returns.
C7_TerminatesIffRateLimitEnds ==
    /\ (<>[](last.status # 429)) => <>(pc \notin {"search", "return"})
    /\ ([](last.status \in {0, 429})) => [](pc = "search" /\ qi = 1)

\* C7 witness: the last call returns after it was rate-limited repeatedly
C7_Witness ==
    /\ pc = "return" /\ qi = NumQueries /\ n429 >= Max429 /\ ok_pages >= 1

\* C8: a response with an error status other than 429 makes search_tweets
\* raise: the pages fetched so far by the call are not returned, the run stops
\* there for good, and nothing is aggregated, scored or written, also when
\* earlier queries of the run completed.
IsErrorStatus(st) == st \notin {0, 200, 429}

C8_ErrorAbortsRun ==
    /\ [][ (AtRequest /\ IsErrorStatus(last'.status)) =>
             /\ pc' = "raised"
             /\ all_tweets' = all_tweets /\ all_users' = all_users ]_vars
    /\ [][ pc = "raised" => pc' = "raised" ]_vars
    /\ [](pc = "raised" =>
             /\ IsErrorStatus(last.status)
             /\ by_author = EmptyDict /\ influencers = <<>>
             /\ csv = <<>> /\ ~csv_written)
    /\ []((pc \in {"build", "score", "sort", "open", "write", "done"}) =>
             ~IsErrorStatus(last.status))

\* C8 witness: the second query failed after the first one completed with
\* posts and after a page of its own
C8_Witness ==
    /\ pc = "raised" /\ qi = 2 /\ all_tweets # <<>> /\ s_tweets # <<>>
    /\ ~csv_written /\ influencers = <<>>

----------------------------------------------------------------------------
(* Further claims about recommend (checked under SpecFn) *)

\* C11: an author with followers_count > 0 and following_count > 50 x
\* followers_count is classified "Skip", with the bot reason, whatever the
\* rate, the total engagement and the sampled texts are: the bot rule is
\* evaluated before the Strong hire and the Consider rules.
C11_BotRuleFirst ==
    ( /\ RecommendReturned
      /\ arg.row.followers_count > 0
      /\ arg.row.following_count > 50 * arg.row.followers_count )
        => /\ result.rec = "Skip"
           /\ result.reason.text = "Following >> followers, likely bot or follow-back account"

\* C11 witness: following_count = 51 x followers_count on an author who
\* meets every condition of the Strong hire rule
C11_Witness ==
    /\ RecommendReturned
    /\ arg.row.followers_count = 6000 /\ arg.row.following_count = 51 * 6000
    /\ arg.er = [num |-> 1, den |-> 1000] /\ arg.total_eng = 25
    /\ arg.row.sample_tweets # <<>>
    /\ result.rec = "Skip"

\* C12: with a rate below 0.0002 and followers_count below 10000 recommend
\* returns neither "Consider" nor "Strong hire"; in particular
\* followers_count = 3000, rate 0.0001, total engagement 6 is "Skip".
C12_LowRateSmallAudienceSkipped ==
    ( /\ RecommendReturned
      /\ arg.er.num * 10000 < 2 * arg.er.den
      /\ arg.row.followers_count < 10000 )
        => result.rec = "Skip"

C12_Witness ==
    /\ RecommendReturned
    /\ arg.row.followers_count = 3000 /\ arg.row.following_count = 0
    /\ arg.er = [num |-> 1, den |-> 10000] /\ arg.total_eng = 6
    /\ result.rec = "Skip"

IsCatchAll == RecommendReturned /\ result.reason.text = "Below Consider threshold"

\* C13 (as claimed): whenever recommend returns the reason "Below Consider
\* threshold", the total engagement is nonzero and 0.00005 <= er < 0.0002.
C13_CatchAllRateBetweenFloors ==
    IsCatchAll =>
        /\ arg.total_eng # 0
        /\ arg.er.num * 100000 >= 5 * arg.er.den
        /\ arg.er.num * 10000 < 2 * arg.er.den

\* C13 (amended): whenever recommend returns the reason "Below Consider
\* threshold", the total engagement is nonzero, the rate is at least 0.00005,
\* and either the rate is below 0.0002 or followers_count is below 2000 (in
\* 1000..1999, where no rate reaches Consider).
C13_CatchAllBelowConsider ==
    IsCatchAll =>
        /\ arg.total_eng # 0
        /\ arg.er.num * 100000 >= 5 * arg.er.den
        /\ \/ arg.er.num * 10000 < 2 * arg.er.den
           \/ arg.row.followers_count \in 1000..1999

\* C13 witness: the catch-all on a high rate and a small audience
C13_Witness ==
    /\ IsCatchAll
    /\ arg.row.followers_count = 1999
    /\ arg.er = [num |-> 1, den |-> 1000] /\ arg.total_eng = 25

----------------------------------------------------------------------------
(* Further claims about the aggregation (checked under SpecAgg) *)

\* a post whose author id is present and has a profile among the users
HasProfile(t) ==
    /\ "author_id" \in DOMAIN t
    /\ t.author_id # ""
    /\ t.author_id \in DOMAIN all_users
    /\ all_users[t.author_id] # EmptyDict

\* the distinct author ids of such posts, in order of first appearance
RECURSIVE FirstAppearance(_)
FirstAppearance(tweets) ==
    IF tweets = <<>> THEN <<>>
    ELSE LET before == FirstAppearance(SubSeq(tweets, 1, Len(tweets) - 1))
             t      == tweets[Len(tweets)]
         IN  IF HasProfile(t) /\ \A i \in 1..Len(before) : before[i] # t.author_id
             THEN Append(before, t.author_id)
             ELSE before

RECURSIVE TotalFound(_)
TotalFound(ids) ==
    IF ids = <<>> THEN 0 ELSE by_author[Head(ids)].tweets_found + TotalFound(Tail(ids))

\* C14: whatever posts the input holds (no author id, an author id without a
\* profile, no public_metrics, metrics with fields missing), the aggregation
\* holds exactly one record per distinct author id that is present and has a
\* profile, in order of first appearance; every such post is counted exactly
\* once with missing metric fields as 0, so the tweets_found of the records
\* sum to the number of such posts; the returned list is these records in
\* that order.
C14_CountsEveryResolvablePost ==
    /\ order = FirstAppearance(all_tweets)
    /\ DOMAIN by_author = {order[i] : i \in 1..Len(order)}
    /\ TotalFound(order) = Len(SelectSeq(all_tweets, HasProfile))
    /\ \A a \in DOMAIN by_author :
         /\ by_author[a].user_id = a
         /\ by_author[a].tweets_found = Len(PostsOf(a))
         /\ by_author[a].total_likes = SumOver(PostsOf(a), "like_count")
         /\ by_author[a].total_retweets = SumOver(PostsOf(a), "retweet_count")
         /\ by_author[a].total_replies = SumOver(PostsOf(a), "reply_count")
    /\ pc = "score" =>
         /\ Len(influencers) = Len(order)
         /\ \A i \in 1..Len(order) : influencers[i] = by_author[order[i]]

\* C14 witness: a returned list of two authors, u2 first, from an input that
\* also holds a post without author id, a post of an author without profile
\* and a post without public_metrics
C14_Witness ==
    /\ pc = "score"
    /\ Len(influencers) = 2
    /\ influencers[1].user_id = "u2" /\ influencers[2].user_id = "u1"
    /\ \E i, j, k \in 1..Len(all_tweets) :
         all_tweets[i] = T5 /\ all_tweets[j] = T6 /\ all_tweets[k] = T2
    /\ influencers[2].tweets_found = 2

----------------------------------------------------------------------------
(* Claim about the driver's aggregation (checked under Spec) *)

InQueryLoop == pc \in {"search", "return", "raised", "build"}

Occurrences(t) == Cardinality({i \in 1..Len(all_tweets) : all_tweets[i] = t})

\* C15: the driver aggregates once, after the last query: until then there
\* is no record; every returning query appends its posts to those of the
\* queries before; the records change only in the one step from "build",
\* which is entered after the last query; and from then on there is exactly
\* one record per author id with a profile, whose tweets_found and totals are
\* the count and the sums over every post of that author in the
\* concatenation, a post that several query results hold counting once for
\* each.
C15_AggregatesOnceOverAllQueries ==
    /\ [](InQueryLoop => by_author = EmptyDict /\ influencers = <<>>)
    /\ [](pc = "build" => qi = NumQueries)
    /\ [][ /\ all_tweets' # all_tweets =>
                /\ InQueryLoop /\ pc # "build"
                /\ all_tweets' = all_tweets \o s_tweets
           /\ by_author' # by_author => pc = "build" /\ pc' = "score"
         ]_vars
    /\ [](~InQueryLoop =>
            /\ DOMAIN by_author =
                 {all_tweets[i].author_id :
                    i \in {j \in 1..Len(all_tweets) : HasProfile(all_tweets[j])}}
            /\ \A a \in DOMAIN by_author :
                 /\ Cardinality({i \in 1..Len(influencers) : influencers[i].user_id = a}) = 1
                 /\ \A i \in 1..Len(influencers) :
                      influencers[i].user_id = a =>
                        /\ influencers[i].tweets_found = Len(PostsOf(a))
                        /\ influencers[i].total_likes = SumOver(PostsOf(a), "like_count")
                        /\ influencers[i].total_retweets = SumOver(PostsOf(a), "retweet_count")
                        /\ influencers[i].total_replies = SumOver(PostsOf(a), "reply_count")
            /\ Len(influencers) = Cardinality(DOMAIN by_author))

\* C15 witness: one record for u1 with more posts than a single query can
\* return (a page holds at most two posts of u1), among them the post T1 more
\* often than a single query can return it (at most once per page)
C15_Witness ==
    /\ pc = "done"
    /\ Len(influencers) = 1
    /\ influencers[1].user_id = "u1"
    /\ influencers[1].tweets_found > 2 * MaxPagesArg
    /\ Occurrences(T1) > MaxPagesArg
    /\ influencers[1].total_likes = 3 * Occurrences(T1) + 2 * Occurrences(T3)

----------------------------------------------------------------------------
(* Claims about the written list and its export (checked under SpecScore) *)

\* the file holds the rows of the list, in list order
CsvIsListPrefix ==
    /\ Len(csv) <= Len(influencers)
    /\ \A i \in 1..Len(csv) :
         \E k \in Fmt4(influencers[i].engagement_rate) : csv[i] = CsvRow(influencers[i], k)

\* C16: in the list written to recommendations.csv, a row after a "Consider"
\* row is no "Strong hire" row and a row after a "Skip" row is a "Skip" row;
\* of two rows of one tier the later has no greater engagement rate, and if
\* their rates are equal, no greater followers_count.
C16_WrittenListOrdered ==
    (csv_written /\ pc \in {"write", "done", "resort", "render", "exported"}) =>
        /\ CsvIsListPrefix
        /\ \A i, j \in 1..Len(influencers) :
             i < j =>
               LET a == influencers[i]
                   b == influencers[j]
               IN  /\ a.recommendation = "Consider" => b.recommendation # "Strong hire"
                   /\ a.recommendation = "Skip" => b.recommendation = "Skip"
                   /\ a.recommendation = b.recommendation =>
                        /\ a.engagement_rate.num * b.engagement_rate.den
                             >= b.engagement_rate.num * a.engagement_rate.den
                        /\ a.engagement_rate.num * b.engagement_rate.den
                             = b.engagement_rate.num * a.engagement_rate.den
                             => a.followers_count >= b.followers_count

\* C16 witness: a written file of the three tiers, with two "Skip" rows of
\* rate 0 that only followers_count orders
C16_Witness ==
    /\ pc = "done"
    /\ Len(csv) = 3
    /\ csv[1].username = "large" /\ csv[1].recommendation = "Consider"
    /\ csv[2].username = "dead" /\ csv[3].username = "silent"
    /\ csv[2].recommendation = "Skip" /\ csv[3].recommendation = "Skip"
    /\ csv[2].engagement_rate = 0 /\ csv[3].engagement_rate = 0

\* C17: the document generator's re-sort leaves the rows in the order of the
\* file, the document holds one card per row of the file, in file order, and
\* its total is the number of rows of the file (0 for a file without rows).
C17_ExportKeepsCsvOrder ==
    /\ pc \in {"render", "exported"} => rows = csv
    /\ pc = "exported" =>
         /\ html.total = Len(csv)
         /\ Len(html.cards) = Len(csv)
         /\ \A i \in 1..Len(csv) :
              /\ html.cards[i].username = csv[i].username
              /\ html.cards[i].recommendation = csv[i].recommendation
              /\ html.cards[i].er_pct = csv[i].engagement_rate
              /\ html.cards[i].profile_url = csv[i].profile_url

\* C17 witness: an exported file in which two adjacent rows of one tier print
\* the same rate though the list orders them by their unrounded rates, the
\* first having fewer followers
C17_Witness ==
    /\ pc = "exported"
    /\ Len(html.cards) = Len(csv)
    /\ \E i \in 1..(Len(csv) - 1) :
         /\ csv[i].recommendation = csv[i + 1].recommendation
         /\ csv[i].engagement_rate = csv[i + 1].engagement_rate
         /\ csv[i].followers_count < csv[i + 1].followers_count
         /\ FloatLT(influencers[i + 1].engagement_rate, influencers[i].engagement_rate)
         /\ html.cards[i].username = csv[i].username

====
